---- MODULE Spec2Model ----
(***************************************************************************)
(* Spell bundles of Magi_CLI: the builder (spells/spellcraft.py,           *)
(* loci/spellcraft/spell_bundle.py), the sigil hash and its verification   *)
(* (loci/spellcraft/sigildry.py) and the extractor / entry-point resolver  *)
(* (loci/spellcraft/spell_parse.py).                                       *)
(*                                                                         *)
(* A Python str is a sequence of one-character strings, a path is the      *)
(* sequence of its components, a dict is a function whose domain is the    *)
(* set of keys present, a directory tree or a zip archive is a function    *)
(* from relative paths to file contents.                                   *)
(***************************************************************************)
EXTENDS Integers, Sequences, FiniteSets, TLC

VARIABLES
    tome,       \* SANCTUM_PATH/.tome : spell name -> archive, or NoArchive
    origin,     \* spell name -> how the archive came to be what it is now
    build,      \* what the last build call was given and how it ended
    tmp,        \* the temporary directories that exist: id -> owner
    exec,       \* the execute_spell_file invocation
    call,       \* the last direct call of a helper: its function, input, outcome
    procs       \* execute_spell_file invocations running side by side

vars == <<tome, origin, build, tmp, exec, call, procs>>

----------------------------------------------------------------------------
(* Strings *)

None == <<"None!">>
s_None == <<"N", "o", "n", "e">>
NL == <<"\n">>

s_spell == <<"s", "p", "e", "l", "l">>
s_artifacts == <<"a", "r", "t", "i", "f", "a", "c", "t", "s">>
s_spell_json == s_spell \o <<".", "j", "s", "o", "n">>
s_spell_yaml == s_spell \o <<".", "y", "a", "m", "l">>
s_sigil_svg == <<"_", "s", "i", "g", "i", "l", ".", "s", "v", "g">>
s_spell_slash == s_spell \o <<"/">>
s_main_py == <<"m", "a", "i", "n", ".", "p", "y">>
s_version == <<"1", ".", "0", ".", "0">>
s_python == <<"p", "y", "t", "h", "o", "n">>
s_bash == <<"b", "a", "s", "h">>
s_shell == <<"s", "h", "e", "l", "l">>
s_bundled == <<"b", "u", "n", "d", "l", "e", "d">>
s_script == <<"s", "c", "r", "i", "p", "t">>
s_macro == <<"m", "a", "c", "r", "o">>
s_generic == <<"g", "e", "n", "e", "r", "i", "c">>
s_shebang == <<"#", "!", "/", "b", "i", "n", "/", "b", "a", "s", "h", "\n">>

\* The characters the model uses, in code-point order.
CharOrder ==
    <<"\n", " ", "!", "#", ".", "/", "0", "1", "2", "3", "4", "5", "6", "7",
      "8", "9", "A", "B", "C", "D", "E", "F", "G", "H", "I", "J", "K", "L",
      "M", "N", "O", "P", "Q", "R", "S", "T", "U", "V", "W", "X", "Y", "Z",
      "_", "a", "b", "c", "d", "e", "f", "g", "h", "i", "j", "k", "l", "m",
      "n", "o", "p", "q", "r", "s", "t", "u", "v", "w", "x", "y", "z">>

OrdTable ==
    LET RECURSIVE table(_)
        table(i) == IF i = 1 THEN CharOrder[1] :> 1
                    ELSE (CharOrder[i] :> i) @@ table(i - 1)
    IN  table(Len(CharOrder))

ord(c) == OrdTable[c]

\* str.upper on one character: the lower-case letters sit 27 places after
\* the upper-case ones in CharOrder.
upper_char(c) ==
    IF ord(c) >= ord("a") /\ ord(c) <= ord("z") THEN CharOrder[ord(c) - 27] ELSE c

upper(s) == [i \in 1..Len(s) |-> upper_char(s[i])]

endswith(s, suf) ==
    /\ Len(s) >= Len(suf)
    /\ SubSeq(s, Len(s) - Len(suf) + 1, Len(s)) = suf

startswith_at(s, i, sub) ==
    /\ i + Len(sub) - 1 <= Len(s)
    /\ SubSeq(s, i, i + Len(sub) - 1) = sub

\* str.replace(old, ''): every non-overlapping occurrence, left to right.
RECURSIVE remove_all(_, _)
remove_all(s, old) ==
    IF s = <<>> THEN <<>>
    ELSE IF startswith_at(s, 1, old)
         THEN remove_all(SubSeq(s, Len(old) + 1, Len(s)), old)
         ELSE <<Head(s)>> \o remove_all(Tail(s), old)

\* a < b for str
str_lt(a, b) ==
    \E i \in 1..(Len(a) + 1) :
        /\ \A j \in 1..(i - 1) : j <= Len(b) /\ a[j] = b[j]
        /\ IF i > Len(a)
           THEN Len(b) >= i
           ELSE i <= Len(b) /\ ord(a[i]) < ord(b[i])

\* f"{v}"
fstr(v) == IF v = None THEN s_None ELSE v

\* bool(v) of a str or None
truthy(v) == v # None /\ v # <<>>

\* dict.get
Get(d, k, dflt) == IF k \in DOMAIN d THEN d[k] ELSE dflt

----------------------------------------------------------------------------
(* Paths *)

\* str.split('/') without the empty and '.' components, as PurePath parses.
RECURSIVE split_from(_, _, _)
split_from(s, i, cur) ==
    IF i > Len(s)
    THEN IF cur = <<>> \/ cur = <<".">> THEN <<>> ELSE <<cur>>
    ELSE IF s[i] = "/"
         THEN (IF cur = <<>> \/ cur = <<".">> THEN <<>> ELSE <<cur>>)
              \o split_from(s, i + 1, <<>>)
         ELSE split_from(s, i + 1, Append(cur, s[i]))

\* Path(s): absolute iff s begins with '/'
Path(s) == [abs |-> Len(s) > 0 /\ s[1] = "/", parts |-> split_from(s, 1, <<>>)]

\* p / s : an absolute right operand replaces the left one
path_join(p, s) ==
    IF Path(s).abs THEN Path(s) ELSE [abs |-> p.abs, parts |-> p.parts \o Path(s).parts]

\* the directory a temporary workspace or staging tree is rooted at
Root == [abs |-> FALSE, parts |-> <<>>]

\* PurePath.name
path_name(parts) == IF parts = <<>> THEN <<>> ELSE parts[Len(parts)]

\* str.rfind('.'), 0-based, -1 when absent
rfind_dot(name) ==
    IF \E i \in 1..Len(name) : name[i] = "."
    THEN (CHOOSE i \in 1..Len(name) :
             name[i] = "." /\ \A j \in (i + 1)..Len(name) : name[j] # ".") - 1
    ELSE -1

\* PurePath.suffix
suffix(parts) ==
    LET name == path_name(parts)
        i == rfind_dot(name)
    IN  IF 0 < i /\ i < Len(name) - 1 THEN SubSeq(name, i + 1, Len(name)) ELSE <<>>

\* PurePath.stem
stem(parts) ==
    LET name == path_name(parts)
        i == rfind_dot(name)
    IN  IF 0 < i /\ i < Len(name) - 1 THEN SubSeq(name, 1, i) ELSE name

\* str(path) of a relative path
RECURSIVE path_str(_)
path_str(parts) ==
    IF parts = <<>> THEN <<".">>
    ELSE IF Len(parts) = 1 THEN parts[1]
         ELSE parts[1] \o <<"/">> \o path_str(Tail(parts))

\* PurePath.__lt__ : the lists of components compare lexicographically
path_lt(p, q) ==
    \E i \in 1..(Len(p) + 1) :
        /\ \A j \in 1..(i - 1) : j <= Len(q) /\ p[j] = q[j]
        /\ IF i > Len(p)
           THEN Len(q) >= i
           ELSE i <= Len(q) /\ str_lt(p[i], q[i])

RECURSIVE sorted(_)
sorted(S) ==
    IF S = {} THEN <<>>
    ELSE LET m == CHOOSE p \in S : \A q \in S \ {p} : path_lt(p, q)
         IN  <<m>> \o sorted(S \ {m})

----------------------------------------------------------------------------
(* Files and trees *)

NoFile == [kind |-> "absent", data |-> <<>>, doc |-> <<>>]
Bytes(b) == [kind |-> "bytes", data |-> b, doc |-> <<>>]
Yaml(d) == [kind |-> "yaml", data |-> <<>>, doc |-> d]
Json(d) == [kind |-> "json", data |-> <<>>, doc |-> d]
Svg(h) == [kind |-> "svg", data |-> h, doc |-> <<>>]

EmptyTree == [p \in {} |-> NoFile]

\* write (or overwrite) one file of a tree
write_file(tree, p, c) == (p :> c) @@ [q \in DOMAIN tree \ {p} |-> tree[q]]

remove_file(tree, p) == [q \in DOMAIN tree \ {p} |-> tree[q]]

\* Path.exists for a path below the root: a file, or a directory holding one
exists_in(tree, parts) ==
    \E p \in DOMAIN tree : Len(p) >= Len(parts) /\ SubSeq(p, 1, Len(parts)) = parts

----------------------------------------------------------------------------
(* sigildry.py : the sigil hash *)

\* Sigildry's own enums: SpellType has SCRIPT and BUNDLE, ShellType has
\* PYTHON and BASH.
SigilSpellTypeNames == {<<"S", "C", "R", "I", "P", "T">>, <<"B", "U", "N", "D", "L", "E">>}
SigilShellTypeNames == {<<"P", "Y", "T", "H", "O", "N">>, <<"B", "A", "S", "H">>}

\* getattr(SpellType, spell_type.upper(), SpellType.SCRIPT), then f"{spell_type}"
sigil_spell_type(t) ==
    IF t = None THEN s_None
    ELSE <<"S", "p", "e", "l", "l", "T", "y", "p", "e", ".">>
         \o (IF upper(t) \in SigilSpellTypeNames THEN upper(t) ELSE upper(s_script))

\* getattr(ShellType, shell_type.upper(), ShellType.PYTHON), then f"{shell_type}"
sigil_shell_type(t) ==
    IF t = None THEN s_None
    ELSE <<"S", "h", "e", "l", "l", "T", "y", "p", "e", ".">>
         \o (IF upper(t) \in SigilShellTypeNames THEN upper(t) ELSE upper(s_python))

\* metadata_str
metadata_str(spell_name, description, spell_type, version, entry_point, shell_type) ==
    fstr(spell_name) \o NL \o fstr(description) \o NL \o sigil_spell_type(spell_type)
    \o NL \o fstr(version) \o NL \o fstr(entry_point) \o NL \o sigil_shell_type(shell_type)

\* the files generate_sigil_hash leaves out, by name, wherever they lie
hash_skips(p) ==
    \/ path_name(p) \in {s_spell_json, s_spell_yaml}
    \/ endswith(path_name(p), s_sigil_svg)

\* what the loop over sorted(spell_dir.rglob('*')) feeds to the hasher
RECURSIVE feed_files(_, _)
feed_files(tree, paths) ==
    IF paths = <<>> THEN <<>>
    ELSE LET p == Head(paths)
         IN  (IF hash_skips(p) THEN <<>> ELSE path_str(p) \o tree[p].data)
             \o feed_files(tree, Tail(paths))

\* everything fed to hashlib.sha256() by generate_sigil_hash
hash_input(spell_name, description, spell_type, version, entry_point, shell_type, spell_dir) ==
    metadata_str(spell_name, description, spell_type, version, entry_point, shell_type)
    \o feed_files(spell_dir, sorted(DOMAIN spell_dir))

\* SHA-256 idealised as collision free: the digest names the bytes hashed
hexdigest(stream) == <<"sha256:">> \o stream

generate_sigil_hash(spell_name, description, spell_type, version, entry_point, shell_type, spell_dir) ==
    hexdigest(hash_input(spell_name, description, spell_type, version,
                         entry_point, shell_type, spell_dir))

----------------------------------------------------------------------------
(* Archives in the tome *)

NoArchive == [kind |-> "none", entries |-> EmptyTree, text |-> <<>>]
Zip(entries) == [kind |-> "zip", entries |-> entries, text |-> <<>>]

\* the results verify_sigil can produce; exit = sys.exit(1) was called.
\* A key the returned dict lacks reads as None, as dict.get gives it.
VerifyResult(exit, verified, error, status, stored, current) ==
    [exit |-> exit, verified |-> verified, error |-> error,
     verification_status |-> status, stored_hash |-> stored, current_hash |-> current]

\* the entries verify_sigil extracts: all but spell.json and <stem>_sigil.svg
verify_extracted(entries, bundle_stem) ==
    LET keep == {p \in DOMAIN entries :
                    path_str(p) \notin {s_spell_json, bundle_stem \o s_sigil_svg}}
    IN  [p \in keep |-> entries[p]]

\* as verify_current_hash, but the entry point is read from the legacy key
verify_current_hash_main_script(entries, bundle_stem) ==
    LET metadata == entries[<<s_spell_json>>].doc
    IN  generate_sigil_hash(Get(metadata, "name", <<>>),
                            Get(metadata, "description", <<>>),
                            Get(metadata, "type", s_generic),
                            Get(metadata, "version", s_version),
                            Get(metadata, "main_script", <<>>),
                            Get(metadata, "shell_type", <<>>),
                            verify_extracted(entries, bundle_stem))

verify_current_hash(entries, bundle_stem) ==
    LET metadata == entries[<<s_spell_json>>].doc
    IN  generate_sigil_hash(Get(metadata, "name", <<>>),
                            Get(metadata, "description", <<>>),
                            Get(metadata, "type", s_generic),
                            Get(metadata, "version", s_version),
                            Get(metadata, "entry_point", <<>>),
                            Get(metadata, "shell_type", <<>>),
                            verify_extracted(entries, bundle_stem))

\* as verify_sigil, but a mismatch is reported to the caller
verify_sigil_reports_mismatch(archive, bundle_stem) ==
    IF archive.kind # "zip"
    THEN VerifyResult(FALSE, FALSE, "BadZipFile", "Verification Error", None, None)
    ELSE IF <<s_spell_json>> \notin DOMAIN archive.entries
              \/ archive.entries[<<s_spell_json>>].kind # "json"
    THEN VerifyResult(FALSE, FALSE, "KeyError", "Verification Error", None, None)
    ELSE LET metadata == archive.entries[<<s_spell_json>>].doc
             stored_hash == Get(metadata, "sigil_hash", None)
             current_hash == verify_current_hash(archive.entries, bundle_stem)
         IN  IF DOMAIN metadata = {}
             THEN VerifyResult(FALSE, FALSE, "No metadata found", "Unknown", None, None)
             ELSE IF ~truthy(stored_hash)
             THEN VerifyResult(FALSE, FALSE, "No stored hash found", "Unknown", None, None)
             ELSE VerifyResult(FALSE, current_hash = stored_hash, "",
                               IF current_hash = stored_hash THEN "Verified" ELSE "Mismatch",
                               stored_hash, current_hash)

\* as verify_sigil, but an archive without a stored hash ends the process
verify_sigil_rejects_unsigned(archive, bundle_stem) ==
    IF /\ archive.kind = "zip"
       /\ <<s_spell_json>> \in DOMAIN archive.entries
       /\ truthy(Get(archive.entries[<<s_spell_json>>].doc, "sigil_hash", None))
    THEN verify_sigil_reports_mismatch(archive, bundle_stem)
    ELSE VerifyResult(TRUE, FALSE, "exit", "Unknown", None, None)

verify_sigil(archive, bundle_stem) ==
    IF archive.kind # "zip"
    THEN VerifyResult(FALSE, FALSE, "BadZipFile", "Verification Error", None, None)
    ELSE IF <<s_spell_json>> \notin DOMAIN archive.entries
              \/ archive.entries[<<s_spell_json>>].kind # "json"
    THEN VerifyResult(FALSE, FALSE, "KeyError", "Verification Error", None, None)
    ELSE LET metadata == archive.entries[<<s_spell_json>>].doc
             stored_hash == Get(metadata, "sigil_hash", None)
             current_hash == verify_current_hash(archive.entries, bundle_stem)
         IN  IF DOMAIN metadata = {}
             THEN VerifyResult(FALSE, FALSE, "No metadata found", "Unknown", None, None)
             ELSE IF ~truthy(stored_hash)
             THEN VerifyResult(FALSE, FALSE, "No stored hash found", "Unknown", None, None)
             ELSE IF current_hash # stored_hash
             THEN VerifyResult(TRUE, FALSE, "exit", "Unknown", stored_hash, current_hash)
             ELSE VerifyResult(FALSE, TRUE, "", "Verified", stored_hash, current_hash)

----------------------------------------------------------------------------
(* spell_bundle.py : SpellBundle *)

Put(d, k, v) == (k :> v) @@ [j \in DOMAIN d \ {k} |-> d[j]]

\* datetime.now().isoformat()
Now == <<"2", "0", "2", "5">>

s_dot_spell == <<".">> \o s_spell

\* f"{name}.spell"
bundle_name(name) == fstr(name) \o s_dot_spell

\* Path(bundle_path).stem
bundle_stem(name) == stem(<<bundle_name(name)>>)

yaml_path == <<s_spell, s_spell_yaml>>

\* the outcome of a build step: an error, or the archive written under name
\* unlinks: the bundler removes bundle_path when the writing raises
BuildError(err) ==
    [ok |-> FALSE, error |-> err, name |-> None, archive |-> NoArchive, unlinks |-> FALSE]
BuildOk(name, archive, unlinks) ==
    [ok |-> TRUE, error |-> "", name |-> name, archive |-> archive, unlinks |-> unlinks]

\* what is left at bundle_path when a write into the open ZipFile raised
PartialArchive == [kind |-> "partial", entries |-> EmptyTree, text |-> <<>>]

REQUIRED_FIELDS == <<"name", "version", "description", "type", "entry_point">>

\* [field for field in required_fields if field not in config]
missing_fields(config) == SelectSeq(REQUIRED_FIELDS, LAMBDA f : f \notin DOMAIN config)

is_valid_spell_dir(spell_dir) ==
    yaml_path \in DOMAIN spell_dir

\* the error load_config raises, "" when it returns the config
load_config_error(spell_dir) ==
    IF yaml_path \notin DOMAIN spell_dir THEN "ValueError: No spell.yaml found"
    ELSE IF missing_fields(spell_dir[yaml_path].doc) # <<>>
         THEN "ValueError: Missing required fields in spell.yaml"
         ELSE ""

\* _generate_spell_sigil without a predefined hash
generate_spell_sigil_hash(config, spell_dir) ==
    generate_sigil_hash(config["name"],
                        Get(config, "description", <<>>),
                        Get(config, "type", s_generic),
                        Get(config, "version", s_version),
                        Get(config, "entry_point", <<>>),
                        Get(config, "shell_type", <<>>),
                        spell_dir)

\* the spell.json that create_bundle writes
create_bundle_metadata(config, sigil_hash) ==
    [name |-> config["name"],
     description |-> config["description"],
     created_at |-> Now,
     entry_point |-> config["entry_point"],
     shell_type |-> Get(config, "shell_type", s_python),
     type |-> Get(config, "type", s_bundled),
     version |-> Get(config, "version", s_version),
     sigil_hash |-> sigil_hash,
     dependencies |-> Get(config, "dependencies", [python |-> <<>>])]

\* SpellBundle(spell_dir).create_bundle(tome_dir)
create_bundle(spell_dir) ==
    IF ~is_valid_spell_dir(spell_dir) THEN BuildError("ValueError: Invalid spell directory")
    ELSE IF load_config_error(spell_dir) # "" THEN BuildError(load_config_error(spell_dir))
    ELSE LET config == spell_dir[yaml_path].doc
             sigil_hash == generate_spell_sigil_hash(config, spell_dir)
             sigil_path == <<fstr(config["name"]) \o s_sigil_svg>>
             with_sigil == write_file(spell_dir, sigil_path, Svg(sigil_hash))
             with_yaml == write_file(with_sigil, yaml_path,
                                     Yaml(Put(config, "sigil_hash", sigil_hash)))
             metadata == create_bundle_metadata(config, sigil_hash)
             \* spell.json is written first, then every file of spell_dir
             entries == with_yaml @@ (<<s_spell_json>> :> Json(metadata))
         IN  BuildOk(config["name"], Zip(entries), FALSE)

\* spell_bundle.py's enums: the member values
BundleSpellTypes == {s_bundled, s_script, s_macro}
BundleShellTypes == {s_python, s_bash}

\* getattr(SpellType, spell_type.upper(), SpellType.SCRIPT)
bundle_spell_type(t) ==
    IF \E v \in BundleSpellTypes : upper(v) = upper(t)
    THEN CHOOSE v \in BundleSpellTypes : upper(v) = upper(t)
    ELSE s_script

\* getattr(ShellType, shell_type.upper(), ShellType.PYTHON)
bundle_shell_type(t) ==
    IF \E v \in BundleShellTypes : upper(v) = upper(t)
    THEN CHOOSE v \in BundleShellTypes : upper(v) = upper(t)
    ELSE s_python

\* SpellBundle.create_spell_bundle
create_spell_bundle(spell_name, spell_type_in, shell_type_in, entry_point, description, spell_dir) ==
    LET spell_type == bundle_spell_type(spell_type_in)
        shell_type == bundle_shell_type(shell_type_in)
        sigil_hash == generate_sigil_hash(spell_name, description, spell_type, s_version,
                                          entry_point, shell_type, spell_dir)
        metadata == [name |-> spell_name,
                     description |-> description,
                     created_at |-> Now,
                     entry_point |-> entry_point,
                     shell_type |-> shell_type,
                     type |-> spell_type,
                     version |-> s_version,
                     dependencies |-> [python |-> <<>>],
                     sigil_hash |-> sigil_hash]
        \* the files of spell_dir, then the sigil, then spell.json
        with_sigil == write_file(spell_dir, <<fstr(spell_name) \o s_sigil_svg>>, Svg(sigil_hash))
        entries == write_file(with_sigil, <<s_spell_json>>, Json(metadata))
    IN  BuildOk(spell_name, Zip(entries), TRUE)

----------------------------------------------------------------------------
(* spellcraft.py : SpellRecipe *)

\* what a recipe call leaves behind: the outcome of the bundling and whether
\* self.temp_dir (mkdtemp 'spell_recipe_') still exists when the call ends
Recipe(result, temp_left) ==
    [ok |-> result.ok, error |-> result.error, name |-> result.name,
     archive |-> result.archive, unlinks |-> result.unlinks, temp_left |-> temp_left]

generate_metadata(spell_name, spell_type, description, entry_point, shell_type) ==
    [name |-> spell_name, description |-> description, created_at |-> Now,
     type |-> spell_type, shell_type |-> shell_type, entry_point |-> entry_point,
     version |-> s_version]

\* the dict _create_yaml_config dumps to spell/spell.yaml
yaml_config_of(metadata) ==
    [name |-> metadata.name, version |-> metadata.version,
     description |-> metadata.description, type |-> metadata.type,
     shell_type |-> metadata.shell_type, entry_point |-> metadata.entry_point]

\* create_script_spell followed by _bundle_spell (which removes temp_dir)
create_script_spell(spell_name, spell_type, script_name, script_bytes, description) ==
    LET shell_type == IF suffix(<<script_name>>) = <<".", "p", "y">> THEN s_python ELSE s_bash
        metadata == generate_metadata(spell_name, spell_type, description,
                                      s_spell_slash \o script_name, shell_type)
        spell_dir == write_file(write_file(EmptyTree, <<s_spell, script_name>>, Bytes(script_bytes)),
                                yaml_path, Yaml(yaml_config_of(metadata)))
    IN  Recipe(create_bundle(spell_dir), FALSE)

\* f.write('#!/bin/bash\n'), then f.write(f"{cmd}\n") for each command
\* as macro_script, but only the last command is written
macro_script_last_only(commands) ==
    s_shebang \o commands[Len(commands)] \o NL

RECURSIVE macro_script(_)
macro_script(commands) ==
    IF commands = <<>> THEN s_shebang
    ELSE macro_script(SubSeq(commands, 1, Len(commands) - 1))
         \o commands[Len(commands)] \o NL

s_dot_sh == <<".", "s", "h">>

\* create_macro_spell: temp_dir is never removed
create_macro_spell(spell_name, commands, description) ==
    LET metadata == [name |-> spell_name, description |-> description, type |-> s_macro,
                     shell_type |-> s_bash, version |-> s_version, commands |-> commands,
                     entry_point |-> s_spell_slash \o spell_name \o s_dot_sh]
        spell_dir == write_file(write_file(EmptyTree, <<s_spell, spell_name \o s_dot_sh>>,
                                           Bytes(macro_script(commands))),
                                yaml_path, Yaml(metadata))
    IN  Recipe(create_bundle(spell_dir), TRUE)

\* where create_bundled_spell copies an item of source_dir (spell.yaml present)
copy_dest(p) ==
    IF Len(p) = 1 \/ p[1] \in {s_spell, s_artifacts} THEN p ELSE <<s_spell>> \o p

copy_source(source_dir) ==
    [q \in {copy_dest(p) : p \in DOMAIN source_dir} |->
        source_dir[CHOOSE p \in DOMAIN source_dir : copy_dest(p) = q]]

\* the first key of the yaml_config literal that config lacks
bundled_key_error(config) ==
    SelectSeq(<<"name", "type", "entry_point", "description">>,
              LAMBDA k : k \notin DOMAIN config)

\* create_bundled_spell when source_dir/spell/spell.yaml exists: temp_dir is
\* never removed
create_bundled_from_yaml(source_dir) ==
    LET config == source_dir[yaml_path].doc IN
    IF bundled_key_error(config) # <<>> THEN Recipe(BuildError("KeyError"), TRUE)
    ELSE IF config["entry_point"] = None THEN Recipe(BuildError("AttributeError"), TRUE)
    ELSE LET entry_point == remove_all(config["entry_point"], s_spell_slash)
             yaml_config == [name |-> config["name"],
                             type |-> config["type"],
                             shell_type |-> Get(config, "shell_type", s_python),
                             entry_point |-> entry_point,
                             description |-> config["description"],
                             requires |-> Get(config, "requires", <<>>),
                             version |-> Get(config, "version", s_version)]
             copied == write_file(copy_source(source_dir), yaml_path, Yaml(yaml_config))
             source_script == path_join(path_join(Root, s_spell), entry_point)
         IN  IF source_script.abs \/ source_script.parts \notin DOMAIN source_dir
             THEN Recipe(BuildError("ValueError: Entry point script not found"), TRUE)
             ELSE Recipe(create_spell_bundle(
                             config["name"], config["type"],
                             Get(config, "shell_type", s_python), entry_point,
                             config["description"],
                             write_file(copied, source_script.parts,
                                        source_dir[source_script.parts])),
                         TRUE)

\* create_bundled_spell without a spell.yaml: everything goes under spell/,
\* the entry point is taken to be spell/main.py; _bundle_spell removes temp_dir
create_bundled_fallback(spell_name, spell_type, source_dir, description) ==
    LET metadata == generate_metadata(spell_name, spell_type, description,
                                      s_spell_slash \o s_main_py, s_python)
        config == Put(Put(yaml_config_of(metadata), "requires", <<>>), "version", s_version)
        copied == [q \in {<<s_spell>> \o p : p \in DOMAIN source_dir} |->
                      source_dir[Tail(q)]]
    IN  Recipe(create_bundle(write_file(copied, yaml_path, Yaml(config))), FALSE)

create_bundled_spell(spell_name, spell_type, source_dir, description) ==
    IF yaml_path \in DOMAIN source_dir
    THEN create_bundled_from_yaml(source_dir)
    ELSE create_bundled_fallback(spell_name, spell_type, source_dir, description)

----------------------------------------------------------------------------
(* spell_parse.py : SpellParser *)

ALLOWED_TYPES == {s_bundled, s_macro, s_script}
ALLOWED_SHELLS == {s_python, s_bash, s_shell}
ALLOWED_EXTENSIONS == {<<".", "p", "y">>, <<".", "s", "h">>, s_dot_spell,
                       <<".", "f", "i", "a", "t">>}

\* _convert_yaml_to_metadata
convert_yaml_to_metadata(config) ==
    LET requires == IF "requires" \in DOMAIN config THEN config["requires"] ELSE <<>>
    IN  [name |-> Get(config, "name", None),
         version |-> Get(config, "version", s_version),
         description |-> Get(config, "description", <<>>),
         type |-> Get(config, "type", s_bundled),
         shell_type |-> Get(config, "shell_type", s_python),
         entry_point |-> Get(config, "entry_point", None),
         parameters |-> Get(config, "parameters", <<>>),
         dependencies |-> IF requires # <<>> THEN [python |-> requires] ELSE <<>>,
         created_at |-> <<>>,
         sigil_hash |-> None]

\* the main_script shim at the head of _validate_metadata
with_entry_point(metadata) ==
    IF "main_script" \in DOMAIN metadata /\ "entry_point" \notin DOMAIN metadata
    THEN Put(metadata, "entry_point", metadata["main_script"])
    ELSE metadata

\* _validate_metadata: the error it raises, "" when it accepts
validate_metadata(metadata_in) ==
    LET metadata == with_entry_point(metadata_in) IN
    IF missing_fields(metadata) # <<>> THEN "ValueError: Missing required metadata fields"
    ELSE IF Get(metadata, "type", None) \notin ALLOWED_TYPES
    THEN "ValueError: Invalid spell type"
    ELSE IF Get(metadata, "shell_type", None) \notin ALLOWED_SHELLS
    THEN "ValueError: Invalid shell type"
    ELSE IF metadata["entry_point"] = None THEN "TypeError"
    ELSE IF suffix(Path(metadata["entry_point"]).parts) \notin ALLOWED_EXTENSIONS
    THEN "ValueError: Invalid entry point file type"
    ELSE ""

json_path == <<s_spell, s_spell_json>>

\* parse_bundle, lines 46-59: the error raised, "" when metadata is loaded
load_metadata_error(files) ==
    IF yaml_path \in DOMAIN files \/ json_path \in DOMAIN files THEN ""
    ELSE "FileNotFoundError: No metadata file"

load_metadata(files) ==
    IF yaml_path \in DOMAIN files
    THEN convert_yaml_to_metadata(files[yaml_path].doc)
    ELSE convert_yaml_to_metadata(files[json_path].doc)

\* as entry_point_candidates, but the workspace root is probed first
entry_point_candidates_root_first(entry_point_name) ==
    << path_join(Root, entry_point_name),
       path_join(path_join(Root, s_spell), entry_point_name),
       path_join(path_join(path_join(Root, s_spell), s_spell), entry_point_name) >>

\* execute_spell_file, lines 312-316
entry_point_candidates(entry_point_name) ==
    << path_join(path_join(Root, s_spell), entry_point_name),
       path_join(Root, entry_point_name),
       path_join(path_join(path_join(Root, s_spell), s_spell), entry_point_name) >>

\* where mkdtemp put the workspace: <tempdir>/<name>, two levels below '/'
Workspace == <<<<"tmp!">>, <<"ws!">>>>

\* scripts of the host, by their absolute path: /h.py
HostFiles == {<<<<"h", ".", "p", "y">>>>}

\* the file system resolves a path: a relative one starts at the workspace,
\* an absolute one at '/', and '..' steps to the parent ('/' is its own)
RECURSIVE os_walk(_, _, _)
os_walk(cur, parts, i) ==
    IF i > Len(parts) THEN cur
    ELSE IF parts[i] = <<".", ".">>
         THEN os_walk(IF cur = <<>> THEN <<>> ELSE SubSeq(cur, 1, Len(cur) - 1), parts, i + 1)
         ELSE os_walk(Append(cur, parts[i]), parts, i + 1)
os_resolve(path) == os_walk(IF path.abs THEN <<>> ELSE Workspace, path.parts, 1)

\* the resolved path lies in the workspace
in_workspace(resolved) ==
    Len(resolved) >= Len(Workspace) /\ SubSeq(resolved, 1, Len(Workspace)) = Workspace

\* Path.exists of a candidate: in the extracted files when the path resolves
\* into the workspace, on the host otherwise
path_exists(files, path) ==
    LET resolved == os_resolve(path) IN
    IF in_workspace(resolved)
    THEN exists_in(files, SubSeq(resolved, Len(Workspace) + 1, Len(resolved)))
    ELSE \/ \E h \in HostFiles : Len(h) >= Len(resolved) /\ SubSeq(h, 1, Len(resolved)) = resolved
         \/ resolved = SubSeq(Workspace, 1, 1)

\* as first_existing, but the primary candidate is taken when none exists
first_existing_or_primary(files, candidates) ==
    IF \E i \in 1..Len(candidates) : path_exists(files, candidates[i])
    THEN CHOOSE i \in 1..Len(candidates) :
            /\ path_exists(files, candidates[i])
            /\ \A j \in 1..(i - 1) : ~path_exists(files, candidates[j])
    ELSE 1

\* next((path for path in entry_point_candidates if path.exists()), None):
\* the index of the first candidate that exists, 0 for None
first_existing(files, candidates) ==
    IF \E i \in 1..Len(candidates) : path_exists(files, candidates[i])
    THEN CHOOSE i \in 1..Len(candidates) :
            /\ path_exists(files, candidates[i])
            /\ \A j \in 1..(i - 1) : ~path_exists(files, candidates[j])
    ELSE 0

----------------------------------------------------------------------------
(* The inputs the model draws from *)

\* the number of temporary directories that may exist at once
MaxTmp == 2

s_a == <<"a">>
s_d == <<"d">>
s_x == <<"x">>
s_m_py == <<"m", ".", "p", "y">>
s_r_sh == <<"r", ".", "s", "h">>
s_m_rb == <<"m", ".", "r", "b">>
s_ritual == <<"r", "i", "t", "u", "a", "l">>

SpellNames == {s_a}
ScriptNames == {s_m_py, s_r_sh}
CommandLists == {<<<<"e">>>>, <<<<"e">>, <<"f">>>>}

\* spell.yaml of a source directory
Config(type, shell_type, entry_point) ==
    [name |-> s_a, version |-> s_version, description |-> s_d, type |-> type,
     shell_type |-> shell_type, entry_point |-> entry_point]

Tree(paths, config) == write_file([p \in paths |-> Bytes(s_x)], yaml_path, Yaml(config))

\* the .spell source directories given to create_bundled_spell
SourceDirs ==
    { \* a well-formed source with auxiliary files
      Tree({<<s_spell, s_m_py>>, <<s_artifacts, <<"n">>>>,
            <<s_artifacts, <<"k">> \o s_sigil_svg>>},
           Config(s_bundled, s_python, s_m_py)),
      \* the entry script also present at the root and in the legacy layout
      Tree({<<s_spell, s_m_py>>, <<s_m_py>>, <<s_spell, s_spell, s_m_py>>},
           Config(s_bundled, s_python, s_spell_slash \o s_m_py)),
      \* a type outside the allowed set
      Tree({<<s_spell, s_m_py>>}, Config(s_ritual, s_python, s_m_py)),
      \* an entry point with a disallowed extension
      Tree({<<s_spell, s_m_rb>>}, Config(s_bundled, s_python, s_m_rb)),
      \* shell_type shell
      Tree({<<s_spell, s_r_sh>>}, Config(s_bundled, s_shell, s_r_sh)),
      \* no version, no name
      Tree({<<s_spell, s_m_py>>},
           [name |-> s_a, description |-> s_d, type |-> s_bundled,
            shell_type |-> s_python, entry_point |-> s_m_py]),
      Tree({<<s_spell, s_m_py>>},
           [version |-> s_version, description |-> s_d, type |-> s_bundled,
            shell_type |-> s_python, entry_point |-> s_m_py]),
      \* the entry script is missing
      Tree({<<s_artifacts, <<"n">>>>}, Config(s_bundled, s_python, s_m_py)),
      \* no spell.yaml: with and without a main.py
      <<s_main_py>> :> Bytes(s_x),
      <<s_m_py>> :> Bytes(s_x) }

\* an archive that did not come from this builder: the legacy layout, the
\* entry script at the root and under spell/spell/, no sigil_hash recorded
LegacyArchive ==
    Zip(write_file(
            Tree({<<s_m_py>>, <<s_spell, s_spell, s_m_py>>},
                 Config(s_bundled, s_python, s_m_py)),
            <<s_spell_json>>,
            Json([name |-> s_a, description |-> s_d, type |-> s_bundled,
                  version |-> s_version, entry_point |-> s_m_py,
                  shell_type |-> s_python])))

\* the files installed from elsewhere: the legacy archive; one whose
\* spell/spell.yaml has no version; one with no spell.json at all, whose
\* spell/spell.yaml names its script by the legacy key main_script; and a
\* file that is no archive
ForeignArchives ==
    { LegacyArchive,
      Zip(write_file(
              Tree({<<s_spell, s_m_py>>},
                   [name |-> s_a, description |-> s_d, type |-> s_bundled,
                    shell_type |-> s_python, entry_point |-> s_m_py]),
              <<s_spell_json>>,
              Json([name |-> s_a, description |-> s_d, type |-> s_bundled,
                    entry_point |-> s_m_py, shell_type |-> s_python]))),
      Zip(Tree({<<s_spell, s_m_py>>},
               [name |-> s_a, version |-> s_version, description |-> s_d,
                type |-> s_bundled, shell_type |-> s_python, main_script |-> s_m_py])),
      \* a legacy spell file: no zip container, a comment line and a command
      [kind |-> "text", entries |-> EmptyTree, text |-> <<"#", "d", NL, "x", NL>>] }

\* what the environment may do to an archive file after its build
AddPaths == {<<s_artifacts, <<"q">>>>, <<s_artifacts, <<"q">> \o s_sigil_svg>>}
RenameNames == {<<"w">>, <<"w">> \o s_sigil_svg}
HashedFields == <<"name", "description", "type", "version", "entry_point", "shell_type">>
FieldValues(f) ==
    CASE f = "name" -> {<<"b">>}
      [] f = "description" -> {<<"e">>}
      [] f = "type" -> {s_bundled, s_script, s_macro}
      [] f = "version" -> {<<"2", ".", "0", ".", "0">>}
      [] f = "entry_point" -> {s_r_sh, <<"/", "h", ".", "p", "y">>,
                               <<".", ".", "/", ".", ".", "/", "h", ".", "p", "y">>}
      [] f = "shell_type" -> {s_python, s_bash, s_shell}

flip_byte(data) ==
    [i \in 1..Len(data) |-> IF i = 1 THEN (IF data[1] = "z" THEN "y" ELSE "z") ELSE data[i]]

\* how an archive came to be what it is: built and untouched, or built and
\* then changed in one way, or put there by hand
Origin(how, path, to, field, old) ==
    [how |-> how, path |-> path, to |-> to, field |-> field, old |-> old]
NoOrigin == Origin("none", <<>>, <<>>, "", <<>>)
Built == Origin("built", <<>>, <<>>, "", <<>>)
Installed == Origin("installed", <<>>, <<>>, "", <<>>)

----------------------------------------------------------------------------
(* State *)

NoVerify == VerifyResult(FALSE, FALSE, "", "", None, None)

NoBuild == [kind |-> "none", ok |-> FALSE, error |-> "", invalid |-> FALSE]

\* no helper has been called
NoCall == [fn |-> "none", input |-> [none |-> TRUE], result |-> [raised |-> "", returned |-> ""]]

\* the processes that run execute_spell_file at the same time
Procs == {1, 2, 3}

IdleProc == [pc |-> "idle", ws |-> 0, temp_dir |-> 0]

IdleExec ==
    [pc |-> "idle", spell |-> None, first |-> NoVerify, second |-> NoVerify,
     ws |-> 0, temp_dir |-> 0, files |-> EmptyTree, metadata |-> <<>>,
     chosen |-> 0, entry_point |-> Root, started |-> FALSE,
     result |-> "none", error |-> "", exit_code |-> 0]

Init ==
    /\ tome = [n \in SpellNames |-> NoArchive]
    /\ origin = [n \in SpellNames |-> NoOrigin]
    /\ build = NoBuild
    /\ tmp = [i \in {} |-> "none"]
    /\ exec = IdleExec
    /\ call = NoCall
    /\ procs = [p \in Procs |-> IdleProc]

\* as new_tmp, but the name is taken without looking at what exists
new_tmp_any_name == CHOOSE i \in 1..MaxTmp : TRUE

\* tempfile.mkdtemp: a directory that did not exist
new_tmp == CHOOSE i \in 1..MaxTmp : i \notin DOMAIN tmp
mkdtemp(owner) == (new_tmp :> owner) @@ tmp
rmtree(i) == [j \in DOMAIN tmp \ {i} |-> tmp[j]]

----------------------------------------------------------------------------
(* Builds: cast sc ...                                                     *)
(* The command-line invocations, a build or an execution, follow one       *)
(* another; build holds the outcome of a build until the next invocation.  *)

\* the recipe made its temp_dir, bundled, and returned or raised; the file
\* system may refuse a write while the ZipFile at bundle_path is open
BuildEnds(kind, descriptor, r) ==
    /\ Cardinality(DOMAIN tmp) < MaxTmp
    /\ \E write_raises \in BOOLEAN :
          /\ write_raises => r.ok
          /\ tome' = IF ~r.ok THEN tome
                     ELSE IF ~write_raises THEN [tome EXCEPT ![r.name] = r.archive]
                     ELSE IF r.unlinks THEN [tome EXCEPT ![r.name] = NoArchive]
                     ELSE [tome EXCEPT ![r.name] = PartialArchive]
          /\ origin' = IF ~r.ok THEN origin
                       ELSE IF ~write_raises THEN [origin EXCEPT ![r.name] = Built]
                       ELSE IF r.unlinks THEN [origin EXCEPT ![r.name] = NoOrigin]
                       ELSE [origin EXCEPT ![r.name] = Origin("partial", <<>>, <<>>, "", <<>>)]
          /\ build' = [kind |-> kind, ok |-> r.ok /\ ~write_raises,
                       error |-> IF write_raises THEN "OSError" ELSE r.error,
                       invalid |-> validate_metadata(descriptor) # ""]
    /\ tmp' = IF r.temp_left THEN mkdtemp("recipe") ELSE tmp
    /\ UNCHANGED <<exec, call, procs>>

\* cast sc <script.py|script.sh> <name>
BuildScript ==
    \E n \in SpellNames, f \in ScriptNames :
        /\ exec.pc = "idle"
        /\ BuildEnds("script",
                     yaml_config_of(generate_metadata(n, s_script, s_d, s_spell_slash \o f,
                                                      IF suffix(<<f>>) = <<".", "p", "y">>
                                                      THEN s_python ELSE s_bash)),
                     create_script_spell(n, s_script, f, s_x, s_d))

\* cast sc <number_of_commands> <name>
BuildMacro ==
    \E n \in SpellNames, c \in CommandLists :
        /\ exec.pc = "idle"
        /\ BuildEnds("macro",
                     [name |-> n, description |-> s_d, type |-> s_macro,
                      shell_type |-> s_bash, version |-> s_version,
                      entry_point |-> s_spell_slash \o n \o s_dot_sh],
                     create_macro_spell(n, c, s_d))

\* cast sc <dir.spell> <name>
BuildBundled ==
    \E n \in SpellNames, src \in SourceDirs :
        /\ exec.pc = "idle"
        /\ BuildEnds("bundled",
                     IF yaml_path \in DOMAIN src
                     THEN Put(src[yaml_path].doc, "shell_type",
                              Get(src[yaml_path].doc, "shell_type", s_python))
                     ELSE yaml_config_of(generate_metadata(n, s_bundled, s_d,
                                                           s_spell_slash \o s_main_py,
                                                           s_python)),
                     create_bundled_spell(n, s_bundled, src, s_d))

----------------------------------------------------------------------------
(* The environment: archive files are put into the tome, or changed there  *)
(* at any time up to the last moment an execution reads the archive.       *)

Install ==
    \E n \in SpellNames, a \in ForeignArchives :
        /\ exec.pc = "idle"
        /\ tome' = [tome EXCEPT ![n] = a]
        /\ origin' = [origin EXCEPT ![n] = Installed]
        /\ UNCHANGED <<build, tmp, exec, call, procs>>

Changed(n, entries, how) ==
    /\ exec.pc \in {"idle", "parse", "parse_verify"}
    /\ tome' = [tome EXCEPT ![n] = Zip(entries)]
    /\ origin' = [origin EXCEPT ![n] = how]
    /\ UNCHANGED <<build, tmp, exec, call, procs>>

BytesFiles(n) == {p \in DOMAIN tome[n].entries : tome[n].entries[p].kind = "bytes"}

TamperByte ==
    \E n \in SpellNames :
        /\ origin[n].how = "built"
        /\ \E p \in BytesFiles(n) :
              Changed(n, write_file(tome[n].entries, p,
                                    Bytes(flip_byte(tome[n].entries[p].data))),
                      Origin("byte", p, <<>>, "", tome[n].entries[p].data))

\* the writer of the changed byte puts the built archive back while
\* parse_bundle is between extractall and its call of verify_sigil
TamperRestore ==
    \E n \in SpellNames :
        /\ origin[n].how = "byte"
        /\ exec.pc = "parse_verify" /\ exec.spell = n
        /\ Changed(n, write_file(tome[n].entries, origin[n].path, Bytes(origin[n].old)),
                   Built)

TamperAdd ==
    \E n \in SpellNames :
        /\ origin[n].how = "built"
        /\ \E p \in AddPaths \ DOMAIN tome[n].entries :
              Changed(n, write_file(tome[n].entries, p, Bytes(s_x)),
                      Origin("add", p, <<>>, "", <<>>))

TamperRemove ==
    \E n \in SpellNames :
        /\ origin[n].how = "built"
        /\ \E p \in BytesFiles(n) :
              Changed(n, remove_file(tome[n].entries, p),
                      Origin("remove", p, <<>>, "", <<>>))

TamperRename ==
    \E n \in SpellNames :
        /\ origin[n].how = "built"
        /\ \E p \in BytesFiles(n), name \in RenameNames :
              LET q == SubSeq(p, 1, Len(p) - 1) \o <<name>> IN
              /\ q \notin DOMAIN tome[n].entries
              /\ Changed(n, write_file(remove_file(tome[n].entries, p), q,
                                       tome[n].entries[p]),
                         Origin("rename", p, q, "", <<>>))

TamperField ==
    \E n \in SpellNames :
        /\ origin[n].how = "built"
        /\ \E i \in 1..Len(HashedFields) :
              LET f == HashedFields[i]
                  metadata == tome[n].entries[<<s_spell_json>>].doc
              IN  \E v \in FieldValues(f) \ {metadata[f]} :
                      Changed(n, write_file(tome[n].entries, <<s_spell_json>>,
                                            Json(Put(metadata, f, v))),
                              Origin("field", <<s_spell_json>>, <<>>, f, metadata[f]))

\* a field of spell/spell.yaml, the descriptor parse_bundle reads, is changed
TamperYaml ==
    \E n \in SpellNames :
        /\ origin[n].how = "built"
        /\ \E f \in {"entry_point", "shell_type"} :
              LET config == tome[n].entries[yaml_path].doc
              IN  \E v \in FieldValues(f) \ {config[f]} :
                      Changed(n, write_file(tome[n].entries, yaml_path,
                                            Yaml(Put(config, f, v))),
                              Origin("yaml", yaml_path, <<>>, f, config[f]))

----------------------------------------------------------------------------
(* execute_spell_file *)

\* the finally block: the workspace is removed if temp_dir was ever bound
finally(e) == IF e.temp_dir # 0 THEN rmtree(e.temp_dir) ELSE tmp

\* "return False" from inside the try block
ReturnFalse(e, pc, error) ==
    /\ exec' = [e EXCEPT !.pc = pc, !.result = "False", !.error = error]
    /\ tmp' = finally(e)

\* lines 260-270: the spell is looked up and its sigil verified
Execute ==
    \E n \in SpellNames :
        /\ exec.pc = "idle"
        /\ LET e == [exec EXCEPT !.spell = n]
               v == verify_sigil(tome[n], bundle_stem(n))
           IN  IF tome[n].kind = "none"
               THEN ReturnFalse(e, "returned", "Spell not found")
               ELSE IF v.exit
               THEN /\ exec' = [e EXCEPT !.pc = "exited", !.first = v, !.exit_code = 1]
                    /\ tmp' = finally(e)
               ELSE /\ exec' = [e EXCEPT !.pc = "parse", !.first = v]
                    /\ tmp' = tmp
        /\ build' = NoBuild
        /\ UNCHANGED <<tome, origin, call, procs>>

\* parse_bundle, lines 36-59: mkdtemp, extractall, the metadata file is loaded.
\* An exception leaves parse_bundle before temp_dir reaches the caller.
ParseExtract ==
    /\ exec.pc = "parse"
    /\ Cardinality(DOMAIN tmp) < MaxTmp
    /\ LET archive == tome[exec.spell]
           raised == IF archive.kind # "zip" THEN "BadZipFile"
                     ELSE load_metadata_error(archive.entries)
       IN  /\ tmp' = mkdtemp("exec")
           /\ exec' = IF raised # ""
                      THEN [exec EXCEPT !.pc = "returned", !.result = "False",
                                        !.error = raised]
                      ELSE [exec EXCEPT !.pc = "parse_verify", !.ws = new_tmp,
                                        !.files = archive.entries,
                                        !.metadata = load_metadata(archive.entries)]
    /\ UNCHANGED <<tome, origin, build, call, procs>>

\* parse_bundle, lines 61-77: the sigil is verified again, the metadata is
\* validated, and temp_dir and metadata are returned to execute_spell_file
ParseVerify ==
    /\ exec.pc = "parse_verify"
    /\ LET v == verify_sigil(tome[exec.spell], bundle_stem(exec.spell))
           metadata == Put(exec.metadata, "sigil_verification",
                           [status |-> v.verification_status, details |-> "No details",
                            verified |-> v.verified, current_hash |-> v.current_hash,
                            stored_hash |-> v.stored_hash])
           raised == validate_metadata(metadata)
       IN  exec' = IF v.exit
                   THEN [exec EXCEPT !.pc = "exited", !.second = v, !.exit_code = 1]
                   ELSE IF raised # ""
                   THEN [exec EXCEPT !.pc = "returned", !.second = v, !.result = "False",
                                     !.error = raised]
                   ELSE [exec EXCEPT !.pc = "searching", !.second = v,
                                     !.temp_dir = exec.ws,
                                     !.metadata = with_entry_point(metadata)]
    /\ UNCHANGED <<tome, origin, build, tmp, call, procs>>

\* lines 304-331: the entry point is looked for
Resolve ==
    /\ exec.pc = "searching"
    /\ LET entry_point_name == Get(exec.metadata, "entry_point", None)
           candidates == entry_point_candidates(entry_point_name)
           i == first_existing(exec.files, candidates)
       IN  IF ~truthy(entry_point_name)
           THEN ReturnFalse(exec, "returned", "No entry point found in spell metadata")
           ELSE IF i = 0
           THEN ReturnFalse(exec, "not_found", "Entry point not found")
           ELSE /\ exec' = [exec EXCEPT !.pc = "found", !.chosen = i,
                                        !.entry_point = candidates[i]]
                /\ tmp' = tmp
    /\ UNCHANGED <<tome, origin, build, call, procs>>

\* lines 333-363: the script is handed to the interpreter or the shell;
\* subprocess.run raises when the process cannot be started
Start ==
    /\ exec.pc = "found"
    /\ LET shell_type == Get(exec.metadata, "shell_type", s_python) IN
       IF shell_type = s_python
       THEN \E can_start \in BOOLEAN :
                /\ exec' = [exec EXCEPT !.pc = "running", !.started = can_start]
                /\ tmp' = tmp
       ELSE IF shell_type \in {s_bash, s_shell}
       THEN /\ exec' = [exec EXCEPT !.pc = "running", !.started = TRUE]
            /\ tmp' = tmp
       ELSE ReturnFalse(exec, "returned", "Unsupported shell type")
    /\ UNCHANGED <<tome, origin, build, call, procs>>

\* lines 355-377 and 409-411: the process ends with its exit code, or the
\* exception of a process that never started is caught
Finish ==
    /\ exec.pc = "running"
    /\ IF ~exec.started
       THEN ReturnFalse(exec, "failed", "Execution error")
       ELSE \E code \in {0, 1} :
                IF code = 0
                THEN /\ exec' = [exec EXCEPT !.pc = "succeeded", !.result = "True"]
                     /\ tmp' = finally(exec)
                ELSE ReturnFalse(exec, "failed", "execution failed with code")
    /\ UNCHANGED <<tome, origin, build, call, procs>>

Ended == {"returned", "exited", "not_found", "succeeded", "failed"}

\* the next invocation
Again ==
    /\ exec.pc \in Ended
    /\ exec' = IdleExec
    /\ UNCHANGED <<tome, origin, build, tmp, call, procs>>

----------------------------------------------------------------------------

Next ==
    \/ BuildScript \/ BuildMacro \/ BuildBundled
    \/ Install
    \/ TamperByte \/ TamperAdd \/ TamperRemove \/ TamperRename \/ TamperField
    \/ TamperYaml \/ TamperRestore
    \/ Execute \/ ParseExtract \/ ParseVerify \/ Resolve \/ Start \/ Finish \/ Again

Spec == Init /\ [][Next]_vars

----------------------------------------------------------------------------
(* Properties *)

\* the spell.json of an archive
descriptor(archive) == archive.entries[<<s_spell_json>>].doc

\* the archive records a sigil_hash and the digest recomputed over its
\* contents is another
Mismatch(archive, n) ==
    /\ archive.kind = "zip"
    /\ <<s_spell_json>> \in DOMAIN archive.entries
    /\ truthy(Get(descriptor(archive), "sigil_hash", None))
    /\ descriptor(archive)["sigil_hash"] # verify_current_hash(archive.entries, bundle_stem(n))

\* a step of execute_spell_file in which the sigil is verified
VerifyStep == exec.pc \in {"idle", "parse_verify"} /\ exec'.pc # exec.pc

\* C1: when execute_spell_file verifies an archive whose stored sigil_hash
\* differs from the recomputed digest, the process terminates with status 1
\* and no entry-point process has been started.
C1_MismatchAborts ==
    [][ (VerifyStep /\ Mismatch(tome[exec'.spell], exec'.spell))
            => (exec'.pc = "exited" /\ exec'.exit_code = 1 /\ ~exec'.started) ]_vars

C1_Witness ==
    /\ exec.pc = "exited" /\ exec.exit_code = 1
    /\ origin[exec.spell].how = "byte"
    /\ Mismatch(tome[exec.spell], exec.spell)

\* C2: an archive that a build wrote and nothing changed since verifies:
\* the digest recomputed from the archive equals the sigil_hash stored in its
\* spell.json and verify_sigil returns verified = True.
C2_BuiltVerifies ==
    \A n \in SpellNames :
        origin[n].how = "built" =>
            LET v == verify_sigil(tome[n], bundle_stem(n)) IN
            /\ ~v.exit /\ v.verified
            /\ v.current_hash = descriptor(tome[n])["sigil_hash"]

C2_Witness ==
    \E n \in SpellNames :
        /\ origin[n].how = "built" /\ build.ok /\ build.kind = "bundled"
        /\ <<s_artifacts, <<"n">>>> \in DOMAIN tome[n].entries
        /\ verify_sigil(tome[n], bundle_stem(n)).verified

\* what generate_sigil_hash is fed when the archive is verified
verify_hash_input(archive, n) ==
    hash_input(Get(descriptor(archive), "name", <<>>),
               Get(descriptor(archive), "description", <<>>),
               Get(descriptor(archive), "type", s_generic),
               Get(descriptor(archive), "version", s_version),
               Get(descriptor(archive), "entry_point", <<>>),
               Get(descriptor(archive), "shell_type", <<>>),
               verify_extracted(archive.entries, bundle_stem(n)))

\* C3: after a build, a changed byte in, or the addition, removal or renaming
\* of, any packaged file other than spell.json and the generated sigil changes
\* what is fed to the hash, so that the stored sigil_hash is no longer
\* reproduced.
C3_FileChangeChangesHashInput ==
    \A n \in SpellNames :
        origin[n].how \in {"byte", "add", "remove", "rename"} =>
            hexdigest(verify_hash_input(tome[n], n)) # descriptor(tome[n])["sigil_hash"]

\* the seed of a descriptor
seed(d) ==
    metadata_str(d["name"], d["description"], d["type"], d["version"],
                 d["entry_point"], d["shell_type"])

\* C4: two descriptors that differ in the recorded value of one of name,
\* description, type, version, entry_point, shell_type have different seeds.
C4_SeedSeparatesFields ==
    \A n \in SpellNames :
        origin[n].how = "field" =>
            seed(descriptor(tome[n]))
                # seed(Put(descriptor(tome[n]), origin[n].field, origin[n].old))

\* C5: verify_sigil on a built archive in which one byte of one packaged
\* file was changed returns verified = False with different stored and
\* current hashes.
C5_ByteChangeReported ==
    \A n \in SpellNames :
        origin[n].how = "byte" =>
            LET v == verify_sigil(tome[n], bundle_stem(n)) IN
            /\ ~v.exit /\ ~v.verified
            /\ v.stored_hash # v.current_hash

\* C6: when execute_spell_file has returned or aborted, no workspace made by
\* an extraction exists any more.
C6_WorkspaceRemoved ==
    exec.pc \in Ended => \A i \in DOMAIN tmp : tmp[i] # "exec"

\* C7: the entry_point of every archive a build wrote has an allowed
\* extension, and parse_bundle returns only for such an entry_point.
C7_EntryPointExtension ==
    /\ \A n \in SpellNames :
          origin[n].how = "built" =>
              suffix(Path(descriptor(tome[n])["entry_point"]).parts) \in ALLOWED_EXTENSIONS
    /\ exec.pc \in {"searching", "found", "not_found", "running", "succeeded", "failed"} =>
          suffix(Path(exec.metadata["entry_point"]).parts) \in ALLOWED_EXTENSIONS

\* C8: a build whose descriptor fails validation raises and writes no archive.
C8_InvalidBuildWritesNothing ==
    build.invalid => ~build.ok

\* C9: parse_bundle of an archive as built returns the descriptor written at
\* build time and the files of the archive.
C9_RoundTrip ==
    (exec.pc = "searching" /\ origin[exec.spell].how = "built") =>
        /\ \A f \in {"name", "version", "description", "type", "shell_type",
                     "entry_point", "created_at", "sigil_hash"} :
              exec.metadata[f] = descriptor(tome[exec.spell])[f]
        /\ DOMAIN exec.files = DOMAIN tome[exec.spell].entries

\* C10: the resolver runs <workspace>/spell/<entry_point> if that exists,
\* else <workspace>/<entry_point> if that exists, else
\* <workspace>/spell/spell/<entry_point>; it reports not found only when
\* none of the three exists.
C10_ResolutionOrder ==
    LET ep == exec.metadata["entry_point"]
        primary == path_join(path_join(Root, s_spell), ep)
        root == path_join(Root, ep)
        legacy == path_join(path_join(path_join(Root, s_spell), s_spell), ep)
        chosen == exec.entry_point
    IN  /\ exec.pc \in {"found", "running"} =>
              /\ path_exists(exec.files, chosen)
              /\ path_exists(exec.files, primary) => chosen = primary
              /\ (~path_exists(exec.files, primary) /\ path_exists(exec.files, root))
                    => chosen = root
              /\ (~path_exists(exec.files, primary) /\ ~path_exists(exec.files, root))
                    => chosen = legacy
        /\ exec.pc = "not_found" =>
              /\ ~path_exists(exec.files, primary)
              /\ ~path_exists(exec.files, root)
              /\ ~path_exists(exec.files, legacy)

C10_Witness ==
    LET ep == Path(exec.metadata["entry_point"]).parts IN
    /\ exec.pc = "found"
    /\ exists_in(exec.files, <<s_spell>> \o ep)
    /\ exists_in(exec.files, ep)
    /\ exec.entry_point.parts = <<s_spell>> \o ep

----------------------------------------------------------------------------
(* The helpers called directly: SpellParser.execute_python_file,           *)
(* execute_bash_file, _validate_metadata, Sigildry.verify_sigil.  call     *)
(* holds the function, what it was given and how it ended: the value it    *)
(* returned, or the exception that left it.                                *)

Called(fn, input, result) ==
    /\ call' = [fn |-> fn, input |-> input, result |-> result]
    /\ call = NoCall
    /\ UNCHANGED <<tome, origin, build, tmp, exec, procs>>

\* what becomes of the script's process: it could not be started, or it
\* ended with returncode
Processes ==
    {[starts |-> TRUE, returncode |-> 0], [starts |-> TRUE, returncode |-> 1],
     [starts |-> TRUE, returncode |-> 2], [starts |-> FALSE, returncode |-> 0]}

\* execute_python_file: subprocess.run raises OSError when the interpreter
\* cannot be started, and only CalledProcessError is caught
execute_python_file(process, verbose) ==
    IF ~process.starts THEN [raised |-> "OSError", returned |-> ""]
    ELSE IF process.returncode # 0 /\ verbose THEN [raised |-> "", returned |-> "False"]
    ELSE [raised |-> "", returned |-> "True"]

\* execute_bash_file: os.system returns the wait status, nonzero too when
\* bash cannot be started
execute_bash_file(process, verbose) ==
    LET exit_code == IF process.starts THEN process.returncode * 256 ELSE 127 * 256 IN
    [raised |-> "", returned |-> IF exit_code # 0 THEN "False" ELSE "True"]

CallExecutePython ==
    \E process \in Processes, verbose \in BOOLEAN :
        /\ call.fn = "none"
        /\ Called("execute_python_file", [process |-> process, verbose |-> verbose],
                  execute_python_file(process, verbose))

CallExecuteBash ==
    \E process \in Processes, verbose \in BOOLEAN :
        /\ call.fn = "none"
        /\ Called("execute_bash_file", [process |-> process, verbose |-> verbose],
                  execute_bash_file(process, verbose))

\* the helper has returned or raised; the next call can be made
Returned ==
    /\ call.fn # "none"
    /\ call' = NoCall
    /\ UNCHANGED <<tome, origin, build, tmp, exec, procs>>

\* C11: a helper that ran an entry point returns True only if the process
\* was started and exited with code 0; when the process exits nonzero or
\* cannot be started the helper returns False, at every verbosity, and no
\* exception leaves it.
C11_SuccessOnlyOnExitZero ==
    call.fn \in {"execute_python_file", "execute_bash_file"} =>
        LET process == call.input.process IN
        /\ call.result.raised = ""
        /\ call.result.returned = "True" => process.starts /\ process.returncode = 0
        /\ ~(process.starts /\ process.returncode = 0) => call.result.returned = "False"

\* C12: a build never rewrites an archive that is already in the storage
\* root: whenever a build call ends, succeeding or failing, every archive
\* that existed before it is still there with the content it had.
C12_ArchivesNeverRewritten ==
    [][(build' # build /\ build'.kind # "none") =>
           \A n \in SpellNames : tome[n].kind # "none" => tome'[n] = tome[n]]_vars

----------------------------------------------------------------------------
(* execute_spell_file invocations running side by side, each in a process  *)
(* of its own, over the one directory of temporary files.  Only what the   *)
(* invocation does with its workspace is kept.                             *)

\* parse_bundle, lines 36-41: mkdtemp, and the archive is extracted into it
ProcExtract(p) ==
    /\ procs[p].pc = "idle"
    /\ Cardinality(DOMAIN tmp) < MaxTmp
    /\ tmp' = mkdtemp(p)
    /\ procs' = [procs EXCEPT ![p] = [pc |-> "extracted", ws |-> new_tmp, temp_dir |-> 0]]
    /\ UNCHANGED <<tome, origin, build, exec, call>>

\* parse_bundle, lines 43-77: it raises, or returns temp_dir to the caller
ProcParse(p) ==
    /\ procs[p].pc = "extracted"
    /\ \E raised \in BOOLEAN :
          procs' = [procs EXCEPT ![p] = [pc |-> IF raised THEN "raised" ELSE "bound",
                                         ws |-> procs[p].ws,
                                         temp_dir |-> IF raised THEN 0 ELSE procs[p].ws]]
    /\ UNCHANGED <<tmp, tome, origin, build, exec, call>>

\* lines 304-411: the entry point is looked up under temp_dir and run there
ProcRun(p) ==
    /\ procs[p].pc = "bound"
    /\ procs' = [procs EXCEPT ![p].pc = "ran"]
    /\ UNCHANGED <<tmp, tome, origin, build, exec, call>>

\* lines 421-425: the finally block of this invocation, then the next call
ProcFinally(p) ==
    /\ procs[p].pc \in {"raised", "ran"}
    /\ tmp' = finally(procs[p])
    /\ procs' = [procs EXCEPT ![p] = IdleProc]
    /\ UNCHANGED <<tome, origin, build, exec, call>>

\* C13: while an invocation is between its extraction and its clean-up, its
\* workspace exists, was made by that invocation, and is not the workspace
\* of any other invocation that is at that time between its own extraction
\* and clean-up: no invocation extracts into or removes another's workspace.
C13_WorkspacesDistinct ==
    LET Live == {"extracted", "bound", "ran"} IN
    \A p \in Procs :
        procs[p].pc \in Live =>
            /\ procs[p].ws \in DOMAIN tmp
            /\ tmp[procs[p].ws] = p
            /\ \A q \in Procs \ {p} : procs[q].pc \in Live => procs[q].ws # procs[p].ws

\* two invocations hold a workspace at the same time, one of them running
C13_Witness ==
    \E p \in Procs, q \in Procs :
        /\ p # q
        /\ procs[p].pc = "ran"
        /\ procs[q].pc = "bound"
        /\ {procs[p].temp_dir, procs[q].temp_dir} \subseteq DOMAIN tmp

NextProcs ==
    \E p \in Procs :
        \/ ProcExtract(p) \/ ProcParse(p) \/ ProcRun(p) \/ ProcFinally(p)

SpecProcs == Init /\ [][NextProcs]_vars

----------------------------------------------------------------------------
(* SpellParser._validate_metadata called on a descriptor *)

\* as validation_error, but a validator that stops at the first missing field
validation_error_first_missing(metadata_in) ==
    LET metadata == with_entry_point(metadata_in)
        raised == validate_metadata(metadata_in)
    IN  [raised |-> raised,
         text |-> IF raised = "ValueError: Missing required metadata fields"
                  THEN <<Head(missing_fields(metadata))>>
                  ELSE <<>>]

\* _validate_metadata, lines 86-109: the exception with the text of its
\* message after the label; ", ".join(missing) keeps the names in order with
\* the separator between them
validation_error(metadata_in) ==
    LET metadata == with_entry_point(metadata_in)
        raised == validate_metadata(metadata_in)
        join[names \in Seq(STRING)] ==
            IF Len(names) <= 1 THEN names
            ELSE <<Head(names), ", ">> \o join[Tail(names)]
    IN  [raised |-> raised,
         text |-> IF raised = "ValueError: Missing required metadata fields"
                  THEN join[missing_fields(metadata)]
                  ELSE IF raised = "ValueError: Invalid spell type"
                  THEN <<Get(metadata, "type", None)>>
                  ELSE IF raised = "ValueError: Invalid shell type"
                  THEN <<Get(metadata, "shell_type", None)>>
                  ELSE IF raised = "ValueError: Invalid entry point file type"
                  THEN <<metadata["entry_point"]>>
                  ELSE <<>>]

\* values of the dependencies field, by their Python types: a dict of lists
\* of str, and the shapes that are not one (items is what a dict holds, of
\* is what a list holds; neither is read of a value of another type)
DependencyShapes ==
    { [isa |-> "dict", items |-> [python |-> [isa |-> "list", of |-> "str"]]],
      [isa |-> "dict", items |-> [python |-> [isa |-> "list", of |-> "str"],
                                  node |-> [isa |-> "list", of |-> "str"]]],
      [isa |-> "dict", items |-> [python |-> [isa |-> "list", of |-> "int"]]],
      [isa |-> "dict", items |-> [python |-> [isa |-> "str", of |-> ""]]],
      [isa |-> "dict", items |-> [python |-> [isa |-> "list", of |-> "str"],
                                  node |-> [isa |-> "str", of |-> ""]]],
      [isa |-> "list", items |-> [python |-> [isa |-> "list", of |-> "str"]]],
      [isa |-> "str", items |-> [python |-> [isa |-> "list", of |-> "str"]]] }

\* the descriptors handed to the validator: every choice of the values of
\* type, shell_type and entry_point, and every choice of the required
\* fields left out, with and without the legacy main_script key
Descriptors ==
    LET full(t, sh, ep) ==
            [name |-> s_a, version |-> s_version, description |-> s_d, type |-> t,
             shell_type |-> sh, entry_point |-> ep]
        RECURSIVE only(_, _)
        only(d, keys) ==
            IF keys = <<>> THEN <<>>
            ELSE (Head(keys) :> d[Head(keys)]) @@ only(d, Tail(keys))
        keep(d, left_out) ==
            only(d, SelectSeq(REQUIRED_FIELDS \o <<"shell_type">>,
                              LAMBDA f : f \notin left_out))
        Types == {s_script, s_macro, s_bundled, s_ritual}
        Shells == {s_python, s_bash, s_shell, s_generic}
        Entries == {s_m_py, s_r_sh, s_m_rb, <<"a", ".", "s", "p", "e", "l", "l">>,
                    <<"a", ".", "f", "i", "a", "t">>, <<"m">>, None}
        Fields == {REQUIRED_FIELDS[i] : i \in 1..Len(REQUIRED_FIELDS)}
    IN  {full(t, sh, ep) : t \in Types, sh \in Shells, ep \in Entries}
        \cup {keep(full(t, s_python, s_m_py), left_out) :
                  t \in {s_script, s_ritual}, left_out \in SUBSET (Fields \cup {"shell_type"})}
        \cup {Put(keep(full(s_script, s_python, ep), left_out), "main_script", s_r_sh) :
                  ep \in {s_m_py, s_m_rb}, left_out \in SUBSET Fields}
        \cup {Put(full(s_script, s_python, ep), "dependencies", dep) :
                  ep \in {s_m_py, s_m_rb}, dep \in DependencyShapes}

CallValidate ==
    \E metadata \in Descriptors :
        /\ call.fn = "none"
        /\ Called("_validate_metadata", metadata, validation_error(metadata))

\* C14: when the descriptor handed to _validate_metadata lacks one or more
\* of the required fields (counting entry_point as supplied by main_script),
\* the call raises one ValueError for missing fields, and every missing
\* field is named in its message.
C14_AllMissingFieldsNamed ==
    call.fn = "_validate_metadata" =>
        LET missing == {f \in {REQUIRED_FIELDS[i] : i \in 1..Len(REQUIRED_FIELDS)} :
                            f \notin DOMAIN with_entry_point(call.input)}
        IN  missing # {} =>
                /\ call.result.raised = "ValueError: Missing required metadata fields"
                /\ \A f \in missing : \E i \in DOMAIN call.result.text :
                                          call.result.text[i] = f

\* a descriptor without version and without type was rejected
C14_Witness ==
    /\ call.fn = "_validate_metadata"
    /\ "name" \in DOMAIN call.input
    /\ "version" \notin DOMAIN call.input
    /\ "type" \notin DOMAIN call.input
    /\ call.result.raised # ""

\* C15: when every required field is present, _validate_metadata raises a
\* validation error whose message names the offending value exactly when
\* type is not one of bundled, script, macro, or shell_type is not one of
\* python, bash, shell, or the extension of entry_point is not one of .py,
\* .sh, .spell, .fiat; in every other case it accepts the descriptor.
C15_InvalidValueNamed ==
    (call.fn = "_validate_metadata" /\ missing_fields(with_entry_point(call.input)) = <<>>) =>
        LET metadata == with_entry_point(call.input)
            offending ==
                {v \in {Get(metadata, "type", None)} : v \notin ALLOWED_TYPES}
                \cup {v \in {Get(metadata, "shell_type", None)} : v \notin ALLOWED_SHELLS}
                \cup {v \in {metadata["entry_point"]} :
                          suffix(Path(v).parts) \notin ALLOWED_EXTENSIONS}
        IN  IF offending = {} THEN call.result.raised = ""
            ELSE /\ call.result.raised \in {"ValueError: Invalid spell type",
                                            "ValueError: Invalid shell type",
                                            "ValueError: Invalid entry point file type"}
                 /\ Len(call.result.text) = 1
                 /\ call.result.text[1] \in offending

\* the descriptor the extracted archive gave: spell/spell.yaml, else
\* spell/spell.json
given_descriptor(files) ==
    IF yaml_path \in DOMAIN files THEN files[yaml_path].doc ELSE files[json_path].doc

\* C16: when parse_bundle has validated the descriptor of an extracted
\* archive and returned, every required field was present in the descriptor
\* the archive gave, and the validated descriptor holds it with the value
\* given: no required field was filled in with a default.
C16_RequiredFieldsAsGiven ==
    exec.temp_dir # 0 =>
        \A i \in 1..Len(REQUIRED_FIELDS) :
            LET f == REQUIRED_FIELDS[i] IN
            /\ f \in DOMAIN given_descriptor(exec.files)
            /\ exec.metadata[f] = given_descriptor(exec.files)[f]

\* C17: when the descriptor an archive gave has main_script and no
\* entry_point, and is accepted by _validate_metadata as it stands, then
\* parse_bundle accepts it too, and hands on a descriptor whose entry_point
\* is the main_script given: that is the name the resolver looks for.
C17_MainScriptBecomesEntryPoint ==
    (/\ exec.pc \in {"searching", "found", "running", "returned", "not_found",
                     "succeeded", "failed"}
     /\ exec.files # EmptyTree
     /\ "main_script" \in DOMAIN given_descriptor(exec.files)
     /\ "entry_point" \notin DOMAIN given_descriptor(exec.files)
     /\ validate_metadata(given_descriptor(exec.files)) = "") =>
        /\ exec.temp_dir # 0
        /\ exec.metadata["entry_point"] = given_descriptor(exec.files)["main_script"]

\* loci/spell_parse.py, _validate_metadata: lines 100-121 are those of the
\* validator above, lines 123-128 look at dependencies
legacy_validation_error(metadata) ==
    IF validate_metadata(metadata) # "" THEN validation_error(metadata)
    ELSE IF "dependencies" \notin DOMAIN metadata THEN [raised |-> "", text |-> <<>>]
    ELSE IF metadata["dependencies"].isa # "dict"
    THEN [raised |-> "ValueError: Dependencies must be a dictionary", text |-> <<>>]
    ELSE IF /\ "python" \in DOMAIN metadata["dependencies"].items
            /\ metadata["dependencies"].items["python"].isa # "list"
    THEN [raised |-> "ValueError: Python dependencies must be a list", text |-> <<>>]
    ELSE [raised |-> "", text |-> <<>>]

CallValidateLegacy ==
    \E metadata \in Descriptors :
        /\ call.fn = "none"
        /\ Called("loci._validate_metadata", metadata, legacy_validation_error(metadata))

\* C18: whenever the descriptor has a dependencies field that is not a dict
\* whose every value, under every ecosystem name, is a list of str, the
\* validator raises.
C18_MalformedDependenciesRejected ==
    (/\ call.fn \in {"_validate_metadata", "loci._validate_metadata"}
     /\ "dependencies" \in DOMAIN call.input) =>
        LET dep == call.input["dependencies"]
            well_formed ==
                /\ dep.isa = "dict"
                /\ \A k \in DOMAIN dep.items :
                       dep.items[k].isa = "list" /\ dep.items[k].of = "str"
        IN  ~well_formed => call.result.raised # ""

C20_UnsignedIsUnverifiedNotFatal ==
    [][LET archive == tome[exec'.spell]
           Unsigned == /\ archive.kind = "zip"
                       /\ \/ <<s_spell_json>> \notin DOMAIN archive.entries
                          \/ ~truthy(Get(descriptor(archive), "sigil_hash", None))
           v == IF exec.pc = "idle" THEN exec'.first ELSE exec'.second
       IN  (VerifyStep /\ Unsigned) =>
           /\ ~v.verified
           /\ v.error \in {"No stored hash found", "KeyError"}
           /\ ~v.exit
           /\ exec'.pc # "exited"]_vars

\* an archive with no spell.json at all was verified, and is being parsed
C20_Witness ==
    /\ exec.pc = "parse_verify"
    /\ tome[exec.spell].kind = "zip"
    /\ <<s_spell_json>> \notin DOMAIN tome[exec.spell].entries
    /\ exec.first.error = "KeyError"
    /\ ~exec.first.verified

\* C21: when the file of the spell is not a zip container, parse_bundle
\* does not fail: execute_spell_file receives a workspace and a descriptor
\* of type macro whose name is the stem of the file.
C21_BareFileIsMacro ==
    (exec.pc \in Ended \cup {"searching", "found", "running"}
        /\ tome[exec.spell].kind = "text") =>
        /\ exec.temp_dir # 0
        /\ Get(exec.metadata, "type", None) = s_macro
        /\ Get(exec.metadata, "name", None) = bundle_stem(exec.spell)

\* C22: in an archive a macro build has written, the file named by the
\* entry_point of the descriptor exists, and its lines are the shebang line
\* followed by the commands the build was given (they are kept in
\* spell/spell.yaml), one per line and in their order.
C22_MacroScriptIsCommands ==
    \A n \in SpellNames :
        (origin[n].how = "built" /\ descriptor(tome[n])["type"] = s_macro) =>
            LET script == Path(descriptor(tome[n])["entry_point"]).parts
                commands == tome[n].entries[yaml_path].doc["commands"]
                RECURSIVE lines(_, _)
                lines(text, cur) ==
                    IF text = <<>> THEN IF cur = <<>> THEN <<>> ELSE <<cur>>
                    ELSE IF Head(text) = "\n" THEN <<cur>> \o lines(Tail(text), <<>>)
                    ELSE lines(Tail(text), Append(cur, Head(text)))
            IN  /\ script \in DOMAIN tome[n].entries
                /\ lines(tome[n].entries[script].data, <<>>)
                       = <<SubSeq(s_shebang, 1, Len(s_shebang) - 1)>> \o commands

\* a macro of two commands was built
C22_Witness ==
    \E n \in SpellNames :
        /\ origin[n].how = "built"
        /\ build.kind = "macro"
        /\ descriptor(tome[n])["type"] = s_macro
        /\ Len(tome[n].entries[yaml_path].doc["commands"]) = 2

\* C23: whenever the entry-point process was started after a verification
\* that passed, the entry_point and shell_type that execute_spell_file used
\* are the entry_point and shell_type of the descriptor that seeded the
\* digest verify_sigil compared with sigil_hash.
C23_ExecutedValuesAreVerified ==
    (exec.started /\ exec.second.verified) =>
        LET verified == descriptor(tome[exec.spell]) IN
        /\ Get(exec.metadata, "entry_point", None) = Get(verified, "entry_point", <<>>)
        /\ Get(exec.metadata, "shell_type", s_python) = Get(verified, "shell_type", <<>>)

\* C24: the entry-point process is started only if the verification returned
\* verified = True; when it returned verified = False (no stored hash, no
\* descriptor, an error while verifying) no process is started.
C24_StartedOnlyIfVerified ==
    exec.started => (exec.first.verified /\ exec.second.verified)

\* C25: whatever entry_point the validator accepted, an absolute path or one
\* with '..' components included, the file that is run lies inside the
\* workspace extracted for this invocation: it is a file of the archive.
C25_RunsOnlyArchiveFiles ==
    exec.started =>
        LET resolved == os_resolve(exec.entry_point) IN
        /\ in_workspace(resolved)
        /\ exists_in(exec.files, SubSeq(resolved, Len(Workspace) + 1, Len(resolved)))

\* C26: whatever a concurrent writer does to the archive file while execute
\* runs, the files execute runs are the ones whose digest the verification
\* of this invocation matched against sigil_hash.
C26_RunsWhatWasVerified ==
    (exec.started /\ exec.second.verified) =>
        /\ <<s_spell_json>> \in DOMAIN exec.files
        /\ verify_current_hash(exec.files, bundle_stem(exec.spell)) = exec.second.stored_hash

\* C27: the resolver of a run moves only searching -> found | not_found,
\* found -> running, running -> succeeded | failed; a process is started only
\* after a candidate was found to exist, and when the entry point exists at no
\* candidate path the run ends in not_found with a resolution error and no
\* process started.
C27_ResolverTransitions ==
    [][ /\ (exec.pc = "searching" /\ exec'.pc # exec.pc)
              => exec'.pc \in {"found", "not_found"}
        /\ (exec.pc = "found" /\ exec'.pc # exec.pc) => exec'.pc = "running"
        /\ (exec.pc = "running" /\ exec'.pc # exec.pc)
              => exec'.pc \in {"succeeded", "failed"}
        /\ (~exec.started /\ exec'.started)
              => (exec.pc = "found" /\ path_exists(exec.files, exec.entry_point))
        /\ (exec.pc = "searching" /\ exec'.pc # exec.pc
              /\ LET candidates ==
                         entry_point_candidates(Get(exec.metadata, "entry_point", None))
                 IN  \A i \in 1..Len(candidates) : ~path_exists(exec.files, candidates[i]))
              => (exec'.pc = "not_found" /\ exec'.error = "Entry point not found"
                    /\ ~exec'.started)
      ]_vars

C27_Witness ==
    /\ exec.pc = "not_found" /\ exec.error = "Entry point not found"
    /\ exec.temp_dir # 0 /\ ~exec.started
    /\ truthy(Get(exec.metadata, "entry_point", None))

\* C28: when the writing of the archive fails part-way, the partial archive
\* file is deleted before the error reaches the caller, whichever build
\* (script, macro, bundled) was writing it.
C28_PartialArchiveDeleted ==
    (build.kind # "none" /\ build.error = "OSError") =>
        \A n \in SpellNames : tome[n].kind # "partial"

\* C29: when a build has returned or raised, no staging directory that a
\* build created (the recipe's mkdtemp 'spell_recipe_') exists any more.
C29_StagingRemoved ==
    build.kind # "none" => \A i \in DOMAIN tmp : tmp[i] # "recipe"

----------------------------------------------------------------------------
(* sigildry.py : the parameters of the sigil drawn from a digest *)

HexDigits == <<"0", "1", "2", "3", "4", "5", "6", "7", "8", "9",
               "a", "b", "c", "d", "e", "f">>

\* int(s, 16) of a str of hexadecimal digits
RECURSIVE int16(_)
int16(s) ==
    IF s = <<>> THEN 0
    ELSE 16 * int16(SubSeq(s, 1, Len(s) - 1))
         + (CHOOSE k \in 1..16 : HexDigits[k] = s[Len(s)]) - 1

\* s[a:b] for 0 <= a <= b: the slice stops at the end of s
pyslice(s, a, b) == SubSeq(s, a + 1, IF b > Len(s) THEN Len(s) ELSE b)

\* as num_lines_of, but one line more
num_lines_of_plus_one(digest) == (int16(pyslice(digest, 0, 2)) % 6) + 6

\* num_lines = int(digest[:2], 16) % 6 + 5
num_lines_of(digest) == (int16(pyslice(digest, 0, 2)) % 6) + 5

\* _hash_to_params: raised names the exception that ends it, "" when it returns
hash_to_params(digest) ==
    LET num_lines == num_lines_of(digest)
        min_runes == (int16(pyslice(digest, 2, 4)) % 2) + 1
        max_runes == (int16(pyslice(digest, 4, 6)) % 2) + 2
        RECURSIVE loop(_, _, _)
        loop(i, angles, available_sectors) ==
            IF i = num_lines THEN [raised |-> "", angles |-> angles]
            ELSE IF pyslice(digest, i * 2, i * 2 + 2) = <<>>
                      \/ pyslice(digest, i * 2 + 2, i * 2 + 4) = <<>>
            THEN [raised |-> "ValueError", angles |-> angles]
            ELSE IF Len(available_sectors) = 0
            THEN [raised |-> "ZeroDivisionError", angles |-> angles]
            ELSE LET hash_segment == int16(pyslice(digest, i * 2, i * 2 + 2))
                     sector_index == hash_segment % Len(available_sectors)
                     base_angle == available_sectors[sector_index + 1]
                     jitter == (int16(pyslice(digest, i * 2 + 2, i * 2 + 4)) % 20) - 10
                 IN  loop(i + 1, Append(angles, base_angle + jitter),
                          SubSeq(available_sectors, 1, sector_index)
                              \o SubSeq(available_sectors, sector_index + 2,
                                        Len(available_sectors)))
        r == loop(0, <<>>, <<0, 36, 72, 108, 144, 180, 216, 252, 288, 324>>)
    IN  [raised |-> r.raised, num_lines |-> num_lines, min_runes |-> min_runes,
         max_runes |-> max_runes, angles |-> r.angles]

\* _add_runes_to_line for line i: the number of runes and, for each, its
\* index into OGHAM (21 runes)
add_runes_to_line(digest, i, params) ==
    LET hash_segment == int16(pyslice(digest, i * 2, i * 2 + 2))
        span == params.max_runes - params.min_runes + 1
    IN  IF span = 0
        THEN [raised |-> "ZeroDivisionError", num_runes |-> 0, runes |-> <<>>]
        ELSE LET num_runes == params.min_runes + (hash_segment % span)
             IN  [raised |-> "", num_runes |-> num_runes,
                  runes |-> [j \in 1..num_runes |->
                               int16(pyslice(digest, (i + j - 1) % 32,
                                             ((i + j - 1) % 32) + 2)) % 21]]

\* _hash_to_params, then _generate_starburst: _add_runes_to_line for each angle
generate_starburst(digest) ==
    LET params == hash_to_params(digest) IN
    [raised |-> params.raised, params |-> params,
     lines |-> IF params.raised # "" THEN <<>>
               ELSE [i \in 1..Len(params.angles) |->
                        add_runes_to_line(digest, i - 1, params)]]

\* hexdigest() values: 64 hexadecimal digits, the first three bytes chosen
\* freely among these, one byte repeated in the other 29 places
DigestBytes == << <<"0", "0">>, <<"0", "1">>, <<"0", "2">>, <<"0", "5">>, <<"0", "9">>,
                  <<"0", "a">>, <<"1", "3">>, <<"f", "f">> >>
FillBytes == << <<"0", "0">>, <<"0", "9">>, <<"6", "3">>, <<"f", "f">> >>

RECURSIVE repeat(_, _)
repeat(s, n) == IF n = 0 THEN <<>> ELSE s \o repeat(s, n - 1)

CallGenerateStarburst ==
    \E a \in 1..Len(DigestBytes), b \in 1..Len(DigestBytes), c \in 1..Len(DigestBytes),
       f \in 1..Len(FillBytes) :
        /\ call.fn = "none"
        /\ LET digest == DigestBytes[a] \o DigestBytes[b] \o DigestBytes[c]
                                \o repeat(FillBytes[f], 29)
           IN  Called("_generate_starburst", [digest |-> digest],
                      generate_starburst(digest))

\* C30: for a digest of 64 hexadecimal digits the derivation raises nothing
\* (no index out of range, no pop from an empty list, no modulo by zero) and
\* gives 5 to 10 lines, each in a 36-degree sector of its own, so that no two
\* angles are equal, with min_runes <= max_runes and on every line between
\* min_runes and max_runes runes.
C30_SignatureWellFormed ==
    call.fn = "_generate_starburst" =>
        LET r == call.result
            p == r.params
            sector(i) == CHOOSE s \in 0..9 : p.angles[i] - 36 * s \in -10..9
        IN  /\ Len(call.input.digest) = 64
            /\ r.raised = ""
            /\ p.num_lines \in 5..10
            /\ Len(p.angles) = p.num_lines
            /\ \A i \in 1..Len(p.angles) : \E s \in 0..9 : p.angles[i] - 36 * s \in -10..9
            /\ \A i, j \in 1..Len(p.angles) :
                  i # j => (sector(i) # sector(j) /\ p.angles[i] # p.angles[j])
            /\ p.min_runes <= p.max_runes
            /\ Len(r.lines) = p.num_lines
            /\ \A i \in 1..Len(r.lines) :
                  /\ r.lines[i].raised = ""
                  /\ r.lines[i].num_runes \in p.min_runes..p.max_runes
                  /\ Len(r.lines[i].runes) = r.lines[i].num_runes
                  /\ \A j \in 1..Len(r.lines[i].runes) : r.lines[i].runes[j] \in 0..20

C30_Witness ==
    /\ call.fn = "_generate_starburst"
    /\ call.result.params.num_lines = 10
    /\ call.result.params.min_runes = 2 /\ call.result.params.max_runes = 2
    /\ call.result.lines[10].num_runes = 2

----------------------------------------------------------------------------

NextCalls ==
    \/ CallExecutePython \/ CallExecuteBash
    \/ CallValidate \/ CallValidateLegacy \/ CallGenerateStarburst
    \/ Returned

SpecCalls == Init /\ [][NextCalls]_vars

====
